---------------------------- MODULE Spec2Model ----------------------------
(***************************************************************************)
(* Model of react-native-interaction-provider: the InteractionSubscription *)
(* timer object (src/subscription.js), the InteractionProvider registry    *)
(* (src/interactionProvider.js) and the InteractionContainer variant that  *)
(* owns a default subscription (src/index.js).                             *)
(*                                                                         *)
(* JavaScript runs the handlers on one event queue.  A handler that calls  *)
(* user callbacks is modelled by its position (dispatch.pc): while a       *)
(* handler is running no other handler, timer or clock step is enabled.    *)
(* Array indices are 1-based here (JavaScript's k is k-1), and indexOf's   *)
(* "not found" (-1) is 0.                                                  *)
(***************************************************************************)
EXTENDS Integers, Sequences, FiniteSets, TLC

\* Bounds of the model.
MaxSubs == 2      \* InteractionSubscription objects ever constructed
MaxDur == 2       \* largest duration / timeout value
MaxTime == 3      \* the simulated clock stops at MaxTime

VARIABLES
  variant,        \* which component: "InteractionProvider" | "InteractionContainer"
  phase,          \* component lifecycle: "constructed" | "mounted" | "unmounted"
  objs,           \* heap of subscription objects, by identity 1..Len(objs)
  subscriptions,  \* this.subscriptions: array of subscription identities
  timers,         \* the host's pending setTimeout callbacks
  now,            \* the clock
  dispatch,       \* position of the running handler
  ghost,          \* per subscription: history of what was done to it
  emit,           \* what the last step handed to the outside: the user
                  \* callback it invoked and the value a handler returned
  hist            \* history of the gesture dispatch in progress

vars == <<variant, phase, objs, subscriptions, timers, now, dispatch, ghost, emit, hist>>

Null == 0
Durations == 1..MaxDur

\* Durations outside the documented range (a positive number of milliseconds).
NonPositiveDurations == {-1, 0}

(***************************************************************************)
(* The world the subscription methods act on.                              *)
(***************************************************************************)
World ==
  [objs |-> objs, subscriptions |-> subscriptions, timers |-> timers,
   ghost |-> ghost, emit |-> emit]

Commit(w) ==
  /\ objs' = w.objs
  /\ subscriptions' = w.subscriptions
  /\ timers' = w.timers
  /\ ghost' = w.ghost
  /\ emit' = w.emit

NoEmit == [self |-> Null, fn |-> "none", returned |-> {}]
Quiet(w) == [w EXCEPT !.emit = NoEmit]

(***************************************************************************)
(* The host's timers: setTimeout returns a handle no live timer and no     *)
(* object's timeout field holds.  Which unused number it is cannot be      *)
(* observed (handles are only stored and passed back), so the model names  *)
(* the handle of object o's timer o, or o plus a multiple of MaxSubs when  *)
(* that is still in use.                                                   *)
(***************************************************************************)
HandlesInUse(w) ==
  {t.id : t \in w.timers} \cup {w.objs[o].timeout : o \in 1..Len(w.objs)}

HandleNames(w, o) ==
  {o + n * MaxSubs : n \in 0..Cardinality(HandlesInUse(w))}

FreshHandle(w, o) ==
  CHOOSE h \in HandleNames(w, o) :
    /\ h \notin HandlesInUse(w)
    /\ \A g \in HandleNames(w, o) : g < h => g \in HandlesInUse(w)

hostClearTimeout(w, h) ==
  [w EXCEPT !.timers = {t \in @ : t.id # h}]

\* setTimeout(fn, delay) for the closure of object o; the new handle is
\* stored by the caller.  The host treats a delay below zero as zero, and
\* never runs fn inside the call.
hostSetTimeout(w, h, o, delay) ==
  LET wait == IF delay > 0 THEN delay ELSE 0
  IN [w EXCEPT !.timers = @ \cup {[id |-> h, self |-> o, due |-> now + wait]}]

(***************************************************************************)
(* InteractionSubscription (src/subscription.js; the same class is         *)
(* InactivitySubscription in src/index.js).                                *)
(***************************************************************************)
\* What a user callback does while it runs: nothing, invoke an unsubscribe
\* handle, subscribe, or refresh every timer.
NoCallback == [op |-> "return", target |-> Null, duration |-> Null, kind |-> "none"]

Kinds == {"subscribe", "subscribeForActivity", "subscribeForInactivity"}

NewSubscription(duration, onActive, onInactive) ==
  [duration |-> duration, onActive |-> onActive, onInactive |-> onInactive,
   timeout |-> Null]

\* History kept beside each object: when its timer was last armed (while that
\* timer is the one the object holds), whether anything but subscribe and its
\* own timer has acted on it, its last user callback, and whether its
\* unsubscribe handle was invoked.
NewGhost ==
  [armedAt |-> Null, touched |-> FALSE, lastCb |-> "none", removed |-> FALSE]

isPending(w, o) == w.objs[o].timeout # Null

\* A plausible slip: the host timer is cancelled but the handle is kept.
clearTimeout_KeepsHandle(w, o) ==
  IF w.objs[o].timeout # Null
    THEN [hostClearTimeout(w, w.objs[o].timeout) EXCEPT !.ghost[o].armedAt = Null]
    ELSE w

\* A plausible slip: the handle is forgotten but the host timer is not cancelled.
clearTimeout_KeepsHostTimer(w, o) ==
  IF w.objs[o].timeout # Null
    THEN [w EXCEPT !.objs[o].timeout = Null, !.ghost[o].armedAt = Null]
    ELSE w

clearTimeout(w, o) ==
  IF w.objs[o].timeout # Null
    THEN [hostClearTimeout(w, w.objs[o].timeout) EXCEPT
            !.objs[o].timeout = Null,
            !.ghost[o].armedAt = Null]
    ELSE w

\* A plausible slip: a missing or non-positive duration is replaced by a
\* default of one millisecond.
armTimeout_AtLeastOne(w, o) ==
  LET h == FreshHandle(w, o)
      d == IF w.objs[o].duration > 0 THEN w.objs[o].duration ELSE 1
  IN [hostSetTimeout(w, h, o, d) EXCEPT
        !.objs[o].timeout = h,
        !.ghost[o].armedAt = now]

\* A plausible slip: one timeout value shared by all subscriptions (that of
\* the first registered one), as in the single-timer ancestor of this code.
armTimeout_SharedDuration(w, o) ==
  LET h == FreshHandle(w, o)
      d == IF Len(w.subscriptions) > 0
             THEN w.objs[w.subscriptions[1]].duration
             ELSE w.objs[o].duration
  IN [hostSetTimeout(w, h, o, d) EXCEPT
        !.objs[o].timeout = h,
        !.ghost[o].armedAt = now]

armTimeout(w, o) ==
  LET h == FreshHandle(w, o)
  IN [hostSetTimeout(w, h, o, w.objs[o].duration) EXCEPT
        !.objs[o].timeout = h,
        !.ghost[o].armedAt = now]

\* A plausible slip: a new timer is armed without cancelling the old one.
refreshTimeout_NoClear(w, o) == armTimeout(w, o)

refreshTimeout(w, o) == armTimeout(clearTimeout(w, o), o)

indexOf(seq, o) ==
  IF \E i \in 1..Len(seq) : seq[i] = o
    THEN CHOOSE i \in 1..Len(seq) : seq[i] = o /\ \A j \in 1..(i - 1) : seq[j] # o
    ELSE 0

\* A plausible slip: the 1-based position is passed where splice counts from 0,
\* so the entry after the intended one is taken out (the last one when there
\* is none after it).
splice_OneTooFar(seq, index) ==
  [i \in 1..(Len(seq) - 1) |-> IF i < index + 1 THEN seq[i] ELSE seq[i + 1]]

splice(seq, index) ==
  [i \in 1..(Len(seq) - 1) |-> IF i < index THEN seq[i] ELSE seq[i + 1]]

(***************************************************************************)
(* The registry: subscribe and the unsubscribe handle it returns.          *)
(***************************************************************************)
\* A plausible slip: the new subscription is registered but its timer is
\* not armed.
pushSubscription_NoArm(w, duration, onActive, onInactive) ==
  [w EXCEPT
     !.objs = Append(@, NewSubscription(duration, onActive, onInactive)),
     !.ghost = Append(@, NewGhost),
     !.subscriptions = Append(@, Len(w.objs) + 1)]

\* A plausible slip: unshift instead of push.
pushSubscription_Unshift(w, duration, onActive, onInactive) ==
  LET o == Len(w.objs) + 1
      w1 == [w EXCEPT
               !.objs = Append(@, NewSubscription(duration, onActive, onInactive)),
               !.ghost = Append(@, NewGhost),
               !.subscriptions = <<o>> \o @]
  IN refreshTimeout(w1, o)

pushSubscription(w, duration, onActive, onInactive) ==
  LET o == Len(w.objs) + 1
      w1 == [w EXCEPT
               !.objs = Append(@, NewSubscription(duration, onActive, onInactive)),
               !.ghost = Append(@, NewGhost),
               !.subscriptions = Append(@, o)]
  IN refreshTimeout(w1, o)

subscribe(w, duration, kind) ==
  pushSubscription(w, duration,
                   kind # "subscribeForInactivity",
                   kind # "subscribeForActivity")

\* A plausible slip: the entry is looked up by its duration instead of its
\* identity, so every subscription of the same duration goes with it.
providerRemove_ByDuration(w, o) ==
  LET other(p) == w.objs[p].duration # w.objs[o].duration
      w1 == clearTimeout(w, o)
  IN [w1 EXCEPT !.subscriptions = SelectSeq(@, other)]

\* A plausible slip: the entry is spliced out but its timer is left running.
providerRemove_NoClear(w, o) ==
  LET index == indexOf(w.subscriptions, o)
  IN IF index > 0
       THEN [w EXCEPT !.subscriptions = splice(@, index)]
       ELSE w

\* src/interactionProvider.js: remove() of the object subscribe returns.
providerRemove(w, o) ==
  LET index == indexOf(w.subscriptions, o)
      w1 == clearTimeout(w, o)
  IN IF index > 0
       THEN [w1 EXCEPT !.subscriptions = splice(@, index)]
       ELSE w1

\* src/index.js: the unsubscribe closure subscribe returns.
containerRemove(w, o) ==
  LET index == indexOf(w.subscriptions, o)
  IN IF index > 0
       THEN [clearTimeout(w, w.subscriptions[index]) EXCEPT
               !.subscriptions = splice(@, index)]
       ELSE w

remove(w, o) ==
  LET w1 == IF variant = "InteractionProvider"
              THEN providerRemove(w, o)
              ELSE containerRemove(w, o)
  IN [w1 EXCEPT !.ghost[o].removed = TRUE, !.ghost[o].touched = TRUE]

\* The subscriptions an unsubscribe handle exists for: those subscribe made.
\* The container's default subscription is constructed directly and has none.
inactivitySubscription ==
  IF variant = "InteractionContainer" THEN 1 ELSE Null

Handles(w) == (1..Len(w.objs)) \ {inactivitySubscription}

(***************************************************************************)
(* forEach over this.subscriptions with a body that calls no user code.    *)
(***************************************************************************)
RECURSIVE stopFrom(_, _)
stopFrom(w, k) ==
  IF k > Len(w.subscriptions)
    THEN w
    ELSE LET o == w.subscriptions[k]
         IN stopFrom([clearTimeout(w, o) EXCEPT !.ghost[o].touched = TRUE], k + 1)

stopInactiveTimer(w) == stopFrom(w, 1)

\* A plausible slip: only the timers that are running are restarted.
RECURSIVE refreshFrom_OnlyPending(_, _)
refreshFrom_OnlyPending(w, k) ==
  IF k > Len(w.subscriptions)
    THEN w
    ELSE LET o == w.subscriptions[k]
             w1 == IF isPending(w, o) THEN refreshTimeout(w, o) ELSE w
         IN refreshFrom_OnlyPending([w1 EXCEPT !.ghost[o].touched = TRUE], k + 1)

RECURSIVE refreshFrom(_, _)
refreshFrom(w, k) ==
  IF k > Len(w.subscriptions)
    THEN w
    ELSE LET o == w.subscriptions[k]
         IN refreshFrom([refreshTimeout(w, o) EXCEPT !.ghost[o].touched = TRUE],
                        k + 1)

refreshInactiveTimer(w) == refreshFrom(w, 1)

startInactiveTimer(w) == refreshInactiveTimer(w)

(***************************************************************************)
(* User callbacks.                                                         *)
(***************************************************************************)
\* The effect of a running user callback on the registry.  A callback
\* reaches refreshInactiveTimer through a ref to the component, which React
\* empties on unmount.
CanRun(w, cb) ==
  CASE cb.op = "return" -> TRUE
    [] cb.op = "remove" -> cb.target \in Handles(w)
    [] cb.op = "subscribe" -> Len(w.objs) < MaxSubs
    [] cb.op = "refresh" -> phase = "mounted"

runCallback(w, cb) ==
  CASE cb.op = "return" -> w
    [] cb.op = "remove" -> remove(w, cb.target)
    [] cb.op = "subscribe" -> subscribe(w, cb.duration, cb.kind)
    [] cb.op = "refresh" -> refreshInactiveTimer(w)

Callbacks ==
  {NoCallback}
    \cup {[op |-> "refresh", target |-> Null, duration |-> Null, kind |-> "none"]}
    \cup {[op |-> "remove", target |-> o, duration |-> Null, kind |-> "none"] :
            o \in 1..MaxSubs}
    \cup {[op |-> "subscribe", target |-> Null, duration |-> d, kind |-> k] :
            d \in Durations, k \in Kinds}

\* active(): calls onActive if present.
active(w, o, cb) ==
  IF w.objs[o].onActive
    THEN runCallback([w EXCEPT !.emit = [NoEmit EXCEPT !.self = o, !.fn = "onActive"],
                               !.ghost[o].lastCb = "onActive"], cb)
    ELSE w

\* A plausible slip: the timer handle is dropped before onInactive is called
\* instead of after it.
inactive_ClearsFirst(w, o, cb) ==
  LET w1 == clearTimeout(w, o)
  IN IF w1.objs[o].onInactive
       THEN runCallback([w1 EXCEPT !.emit = [NoEmit EXCEPT !.self = o, !.fn = "onInactive"],
                                   !.ghost[o].lastCb = "onInactive"], cb)
       ELSE w1

\* inactive(): calls onInactive if present.
inactive(w, o, cb) ==
  IF w.objs[o].onInactive
    THEN runCallback([w EXCEPT !.emit = [NoEmit EXCEPT !.self = o, !.fn = "onInactive"],
                               !.ghost[o].lastCb = "onInactive"], cb)
    ELSE w

(***************************************************************************)
(* State after construction.                                               *)
(***************************************************************************)
Idle == [pc |-> "idle", k |-> Null, len |-> Null, self |-> Null]

NoHist ==
  [startLive |-> <<>>, startPending |-> {}, visited |-> <<>>,
   activated |-> <<>>, mutated |-> FALSE]

InitProvider ==
  /\ variant = "InteractionProvider"
  /\ objs = <<>>
  /\ ghost = <<>>
  /\ subscriptions = <<>>

InitContainer ==
  /\ variant = "InteractionContainer"
  /\ \E timeout \in Durations : objs = <<NewSubscription(timeout, TRUE, TRUE)>>
  /\ ghost = <<NewGhost>>
  /\ subscriptions = <<1>>

Init ==
  /\ InitProvider \/ InitContainer
  /\ phase = "constructed"
  /\ timers = {}
  /\ now = 0
  /\ dispatch = Idle
  /\ emit = NoEmit
  /\ hist = NoHist

(***************************************************************************)
(* Lifecycle.                                                              *)
(***************************************************************************)
AtTopLevel == dispatch.pc = "idle"

\* componentWillMount creates the PanResponder and nothing else.
ComponentWillMount ==
  /\ AtTopLevel
  /\ phase = "constructed"
  /\ phase' = "mounted"
  /\ Commit(Quiet(World))
  /\ UNCHANGED <<variant, now, dispatch, hist>>

ComponentWillUnmount ==
  /\ AtTopLevel
  /\ phase = "mounted"
  /\ phase' = "unmounted"
  /\ Commit(Quiet(stopInactiveTimer(World)))
  /\ UNCHANGED <<variant, now, dispatch, hist>>

StopInactiveTimer ==
  /\ AtTopLevel
  /\ phase = "mounted"
  /\ Commit(Quiet(stopInactiveTimer(World)))
  /\ UNCHANGED <<variant, phase, now, dispatch, hist>>

RefreshInactiveTimer ==
  /\ AtTopLevel
  /\ phase = "mounted"
  /\ Commit(Quiet(refreshInactiveTimer(World)))
  /\ UNCHANGED <<variant, phase, now, dispatch, hist>>

StartInactiveTimer ==
  /\ AtTopLevel
  /\ phase = "mounted"
  /\ Commit(Quiet(startInactiveTimer(World)))
  /\ UNCHANGED <<variant, phase, now, dispatch, hist>>

(***************************************************************************)
(* The context API, called by descendants outside of any callback.         *)
(***************************************************************************)
Subscribe(duration) ==
  /\ AtTopLevel
  /\ phase = "mounted"
  /\ Len(objs) < MaxSubs
  /\ Commit(Quiet(subscribe(World, duration, "subscribe")))
  /\ UNCHANGED <<variant, phase, now, dispatch, hist>>

SubscribeForActivity(duration) ==
  /\ AtTopLevel
  /\ phase = "mounted"
  /\ Len(objs) < MaxSubs
  /\ Commit(Quiet(subscribe(World, duration, "subscribeForActivity")))
  /\ UNCHANGED <<variant, phase, now, dispatch, hist>>

SubscribeForInactivity(duration) ==
  /\ AtTopLevel
  /\ phase = "mounted"
  /\ Len(objs) < MaxSubs
  /\ Commit(Quiet(subscribe(World, duration, "subscribeForInactivity")))
  /\ UNCHANGED <<variant, phase, now, dispatch, hist>>

Remove(o) ==
  /\ AtTopLevel
  /\ phase # "constructed"
  /\ o \in Handles(World)
  /\ Commit(Quiet(remove(World, o)))
  /\ UNCHANGED <<variant, phase, now, dispatch, hist>>

(***************************************************************************)
(* onPanResponderCapture: this.subscriptions.forEach(...); return false.   *)
(* Array.prototype.forEach reads the length once, then for each index      *)
(* below it that is still present calls the body with the element there.   *)
(***************************************************************************)
Pending(w) == {o \in 1..Len(w.objs) : isPending(w, o)}

GestureBegin ==
  /\ AtTopLevel
  /\ phase = "mounted"
  /\ dispatch' = [pc |-> "forEach", k |-> 1, len |-> Len(subscriptions), self |-> Null]
  /\ hist' = [NoHist EXCEPT !.startLive = subscriptions,
                            !.startPending = Pending(World)]
  /\ Commit(Quiet(World))
  /\ UNCHANGED <<variant, phase, now>>

\* A plausible slip: the isPending check is dropped.
captureBody_AlwaysActive(w, o, cb) == refreshTimeout(active(w, o, cb), o)

\* A plausible slip: the timer is re-armed only on the path that does not
\* call active().
captureBody_NoRefreshAfterActive(w, o, cb) ==
  IF ~isPending(w, o) THEN active(w, o, cb) ELSE refreshTimeout(w, o)

\* A plausible slip: a subscription nobody listens to for activity is passed
\* over by the gesture handler.
captureBody_OnlyListeners(w, o, cb) ==
  IF w.objs[o].onActive
    THEN refreshTimeout(IF ~isPending(w, o) THEN active(w, o, cb) ELSE w, o)
    ELSE w

\* A plausible slip: the timer is re-armed before onActive is called.
captureBody_RefreshFirst(w, o, cb) ==
  IF ~isPending(w, o) THEN active(refreshTimeout(w, o), o, cb)
                      ELSE refreshTimeout(w, o)

\* The forEach body for one subscription.
captureBody(w, o, cb) ==
  refreshTimeout(IF ~isPending(w, o) THEN active(w, o, cb) ELSE w, o)

CallsOnActive(w, o) == ~isPending(w, o) /\ w.objs[o].onActive

GestureVisit(cb) ==
  /\ dispatch.pc = "forEach"
  /\ dispatch.k <= dispatch.len
  /\ dispatch.k <= Len(subscriptions)
  /\ LET o == subscriptions[dispatch.k]
         called == CallsOnActive(World, o)
         w == captureBody(Quiet(World), o, cb)
     IN /\ IF called THEN CanRun(World, cb) ELSE cb = NoCallback
        /\ Commit([w EXCEPT !.ghost[o].touched = TRUE])
        /\ hist' = [hist EXCEPT
                      !.visited = Append(@, o),
                      !.activated = IF w.emit.fn = "onActive" THEN Append(@, o) ELSE @,
                      !.mutated = @ \/ cb.op # "return"]
  /\ dispatch' = [dispatch EXCEPT !.k = @ + 1]
  /\ UNCHANGED <<variant, phase, now>>

\* An index the array no longer has: forEach passes over it.
GestureSkip ==
  /\ dispatch.pc = "forEach"
  /\ dispatch.k <= dispatch.len
  /\ dispatch.k > Len(subscriptions)
  /\ dispatch' = [dispatch EXCEPT !.k = @ + 1]
  /\ Commit(Quiet(World))
  /\ UNCHANGED <<variant, phase, now, hist>>

\* A plausible slip: the handler claims the gesture.
captureReturn_Captures(w) == [w EXCEPT !.emit.returned = {TRUE}]

\* return false: the gesture is left to the children.
captureReturn(w) == [w EXCEPT !.emit.returned = {FALSE}]

GestureReturn ==
  /\ dispatch.pc = "forEach"
  /\ dispatch.k > dispatch.len
  /\ dispatch' = Idle
  /\ hist' = NoHist
  /\ Commit(captureReturn(Quiet(World)))
  /\ UNCHANGED <<variant, phase, now>>

(***************************************************************************)
(* The deferred callback of refreshTimeout: inactive(); clearTimeout().    *)
(***************************************************************************)
Due(t) ==
  /\ t \in timers
  /\ t.due <= now
  /\ \A u \in timers : t.due <= u.due

TimerExpire(t, cb) ==
  /\ AtTopLevel
  /\ Due(t)
  /\ LET w == [Quiet(World) EXCEPT !.timers = @ \ {t}]
     IN /\ IF w.objs[t.self].onInactive THEN CanRun(w, cb) ELSE cb = NoCallback
        /\ Commit(inactive(w, t.self, cb))
  /\ dispatch' = [Idle EXCEPT !.pc = "timer", !.self = t.self]
  /\ UNCHANGED <<variant, phase, now, hist>>

TimerClear ==
  /\ dispatch.pc = "timer"
  /\ Commit(Quiet(clearTimeout(World, dispatch.self)))
  /\ dispatch' = Idle
  /\ UNCHANGED <<variant, phase, now, hist>>

\* Time passes only when no timer is due.  The constructor and
\* componentWillMount run in one synchronous render, so none passes between.
Tick ==
  /\ AtTopLevel
  /\ phase # "constructed"
  /\ now < MaxTime
  /\ \A t \in timers : t.due > now
  /\ now' = now + 1
  /\ Commit(Quiet(World))
  /\ UNCHANGED <<variant, phase, dispatch, hist>>

Next ==
  \/ ComponentWillMount
  \/ ComponentWillUnmount
  \/ StopInactiveTimer
  \/ RefreshInactiveTimer
  \/ StartInactiveTimer
  \/ \E d \in Durations : Subscribe(d)
  \/ \E d \in Durations : SubscribeForActivity(d)
  \/ \E d \in Durations : SubscribeForInactivity(d)
  \/ \E o \in 1..MaxSubs : Remove(o)
  \/ GestureBegin
  \/ \E cb \in Callbacks : GestureVisit(cb)
  \/ GestureSkip
  \/ GestureReturn
  \/ \E t \in timers, cb \in Callbacks : TimerExpire(t, cb)
  \/ TimerClear
  \/ Tick

Spec == Init /\ [][Next]_vars

\* The same component when descendants also subscribe with durations that
\* are zero or negative.
NextNonPositive ==
  \/ Next
  \/ \E d \in NonPositiveDurations : Subscribe(d)
  \/ \E d \in NonPositiveDurations : SubscribeForActivity(d)
  \/ \E d \in NonPositiveDurations : SubscribeForInactivity(d)

SpecNonPositive == Init /\ [][NextNonPositive]_vars

(***************************************************************************)
(* The component under fair scheduling, for the liveness properties.  The  *)
(* clock of the model stops at MaxTime, so here the environment stops      *)
(* arming timers early enough for every armed timer to come due: no        *)
(* gesture event is dispatched later than MaxDur before MaxTime and no     *)
(* step schedules a timer beyond MaxTime.  Time keeps advancing, the host  *)
(* runs every timer that is due, and a handler that has started runs to    *)
(* its end; since handlers disable the clock and the timers while they     *)
(* run, the clock and the timers are given strong fairness.                *)
(***************************************************************************)
Horizon ==
  /\ \A t \in timers : t.due <= MaxTime
  /\ dispatch.pc = "forEach" => now + MaxDur <= MaxTime

NextLive == Next /\ Horizon'

Fairness ==
  /\ SF_vars(Tick /\ Horizon')
  /\ SF_vars((\E t \in timers, cb \in Callbacks : TimerExpire(t, cb)) /\ Horizon')
  /\ WF_vars(TimerClear /\ Horizon')
  /\ WF_vars((\E cb \in Callbacks : GestureVisit(cb)) /\ Horizon')
  /\ WF_vars(GestureSkip /\ Horizon')
  /\ WF_vars(GestureReturn /\ Horizon')

SpecLive == Init /\ [][NextLive]_vars /\ Fairness

TypeOK ==
  /\ variant \in {"InteractionProvider", "InteractionContainer"}
  /\ phase \in {"constructed", "mounted", "unmounted"}
  /\ Len(objs) <= MaxSubs
  /\ Len(ghost) = Len(objs)
  /\ now \in 0..MaxTime
  /\ dispatch.pc \in {"idle", "forEach", "timer"}

(***************************************************************************)
(* Vocabulary of the properties.                                           *)
(***************************************************************************)
TimersOf(o) == {t \in timers : t.self = o}

Live(o) == \E i \in 1..Len(subscriptions) : subscriptions[i] = o

Count(seq, o) == Cardinality({i \in 1..Len(seq) : seq[i] = o})

\* o holds exactly one deferred callback, due its own duration after time t.
ArmedFor(o, t) ==
  /\ objs[o].timeout # Null
  /\ TimersOf(o) = {[id |-> objs[o].timeout, self |-> o, due |-> t + objs[o].duration]}

\* The forEach of a gesture event has passed its last index.
DispatchDone == dispatch.pc = "forEach" /\ dispatch.k > dispatch.len

Called(o, fn) == emit.self = o /\ emit.fn = fn

(***************************************************************************)
(* C1.  Once the unsubscribe handle of a subscription has been invoked,    *)
(* no step calls its onActive or its onInactive.                           *)
(* Stated as the claim; the code violates it when the handle is invoked    *)
(* from the subscription's own onActive (the forEach body goes on to       *)
(* refreshTimeout the removed subscription).                               *)
(***************************************************************************)
C1_NoCallbackAfterUnsubscribe ==
  [][\A o \in 1..Len(objs) : ghost[o].removed => emit'.self # o]_vars

(***************************************************************************)
(* C2.  At the end of a gesture dispatch whose callbacks make no call into *)
(* the registry, every live subscription that was INACTIVE (not            *)
(* pending) when the event arrived has had onActive called exactly once    *)
(* (when it has one), every subscription that was ACTIVE has had it called *)
(* zero times, and each holds one timer armed at the time of the event.    *)
(***************************************************************************)
C2_GestureActivatesOnlyInactive ==
  (DispatchDone /\ ~hist.mutated) =>
    \A i \in 1..Len(subscriptions) :
      LET o == subscriptions[i]
      IN /\ Count(hist.activated, o) =
              (IF o \notin hist.startPending /\ objs[o].onActive THEN 1 ELSE 0)
         /\ ArmedFor(o, now)

C2_Witness ==
  /\ DispatchDone
  /\ ~hist.mutated
  /\ \E o \in 1..Len(objs), p \in 1..Len(objs) :
       /\ Live(o) /\ Live(p)
       /\ o \notin hist.startPending /\ Count(hist.activated, o) = 1
       /\ p \in hist.startPending /\ Count(hist.activated, p) = 0

(***************************************************************************)
(* C3.  In every state every subscription object, live or removed, has at  *)
(* most one deferred callback scheduled with the host.                     *)
(***************************************************************************)
C3_AtMostOneTimer ==
  \A o \in 1..Len(objs) : Cardinality(TimersOf(o)) <= 1

\* A pending subscription has just been refreshed by a gesture event.
C3_Witness ==
  /\ dispatch.pc = "forEach"
  /\ \E o \in 1..Len(objs) :
       /\ o \in hist.startPending
       /\ Count(hist.visited, o) = 1
       /\ Cardinality(TimersOf(o)) = 1

(***************************************************************************)
(* C4.  A subscription made by subscribe with an onInactive callback and   *)
(* on which nothing else has acted (no gesture visit, refreshAll, stopAll  *)
(* or unsubscribe) never has onActive called; until onInactive is called   *)
(* its one timer is due exactly duration after the subscribe call, which   *)
(* the clock has not passed; onInactive is called at exactly that time,    *)
(* only once, and afterwards no timer of it is left.                       *)
(***************************************************************************)
Untouched(o) == o \in Handles(World) /\ ~ghost[o].touched /\ objs[o].onInactive

C4_UntouchedState ==
  \A o \in 1..Len(objs) :
    Untouched(o) =>
      /\ ghost[o].lastCb # "onActive"
      /\ ghost[o].lastCb = "none" =>
           /\ ArmedFor(o, ghost[o].armedAt)
           /\ now <= ghost[o].armedAt + objs[o].duration
      /\ ghost[o].lastCb = "onInactive" => TimersOf(o) = {}

C4_UntouchedStep ==
  \A o \in 1..Len(objs) :
    (Untouched(o) /\ ~ghost'[o].touched /\ emit'.self = o) =>
      /\ emit'.fn = "onInactive"
      /\ ghost[o].lastCb = "none"
      /\ now = ghost[o].armedAt + objs[o].duration

C4_InactiveExactlyAfterDuration ==
  [](C4_UntouchedState) /\ [][C4_UntouchedStep]_vars

C4_Witness ==
  \E o \in 1..Len(objs) :
    /\ Untouched(o)
    /\ Called(o, "onInactive")
    /\ objs[o].duration = MaxDur
    /\ now = ghost[o].armedAt + MaxDur

(***************************************************************************)
(* C5.  A gesture event that visits a pending subscription at time t       *)
(* leaves it with exactly one timer, due t + duration (the earlier         *)
(* deadline is cancelled); onInactive is only ever called at the time the  *)
(* object's current timer was armed plus its duration, and an armed timer  *)
(* is never overdue when the clock moves.                                  *)
(***************************************************************************)
C5_VisitPostpones ==
  \A o \in 1..Len(objs) :
    (hist'.visited = Append(hist.visited, o) /\ isPending(World, o)) =>
      /\ objs'[o].timeout # Null
      /\ {t \in timers' : t.self = o} =
           {[id |-> objs'[o].timeout, self |-> o, due |-> now + objs[o].duration]}
      /\ emit'.self # o

C5_FiresAtDeadlineOnly ==
  \A o \in 1..Len(objs) :
    (emit'.self = o /\ emit'.fn = "onInactive") =>
      now = ghost[o].armedAt + objs[o].duration

C5_NotOverdue ==
  \A t \in timers : now' > now => t.due > now

C5_GesturePostponesDeadline ==
  [][C5_VisitPostpones /\ C5_FiresAtDeadlineOnly /\ C5_NotOverdue]_vars

\* A gesture event after time 0 has visited a subscription whose timer was
\* pending.
C5_Witness ==
  /\ DispatchDone
  /\ now > 0
  /\ \E o \in 1..Len(objs) :
       /\ o \in hist.startPending
       /\ Count(hist.visited, o) = 1
       /\ objs[o].duration = MaxDur
       /\ ArmedFor(o, now)

(***************************************************************************)
(* C6.  At the end of every gesture dispatch, each subscription that was   *)
(* live when the event started and is still live has been processed by the *)
(* forEach body exactly once.                                              *)
(* Stated as the claim; the code violates it: a callback that removes an   *)
(* entry at or before the current index shifts the later entries down, and *)
(* forEach passes over the one that moved into the current index.          *)
(***************************************************************************)
C6_SurvivorsProcessedOnce ==
  DispatchDone =>
    \A o \in 1..Len(objs) :
      (Count(hist.startLive, o) > 0 /\ Live(o)) => Count(hist.visited, o) = 1

(***************************************************************************)
(* C7.  At the end of a gesture dispatch whose callbacks make no call into *)
(* the registry, the subscriptions processed are the live ones, the        *)
(* onActive calls made are exactly those of the subscriptions whose own    *)
(* timer had elapsed, and every subscription holds one timer due its own   *)
(* duration after the event.                                               *)
(***************************************************************************)
ResumedAtStart(o) == o \notin hist.startPending /\ objs[o].onActive

C7_IndependentUpdate ==
  (DispatchDone /\ ~hist.mutated) =>
    /\ hist.visited = hist.startLive
    /\ hist.activated = SelectSeq(hist.startLive, ResumedAtStart)
    /\ \A o \in 1..Len(objs) : Live(o) => ArmedFor(o, now)

\* Two subscriptions with different durations, one elapsed and one pending,
\* have been updated by one gesture event.
C7_Witness ==
  /\ DispatchDone
  /\ ~hist.mutated
  /\ \E o \in 1..Len(objs), p \in 1..Len(objs) :
       /\ objs[o].duration # objs[p].duration
       /\ hist.startLive = <<o, p>>
       /\ hist.startPending = {o}
       /\ hist.activated = <<p>>
       /\ ArmedFor(o, now)
       /\ ArmedFor(p, now)

(***************************************************************************)
(* C8.  Every step that constructs a subscription object through subscribe *)
(* appends it, and nothing else, at the end of the live set and leaves it  *)
(* pending with one timer due its duration from now, with no callback of   *)
(* it invoked.                                                             *)
(***************************************************************************)
C8_SubscribeStep ==
  Len(objs') = Len(objs) + 1 =>
    LET o == Len(objs')
    IN /\ subscriptions' = Append(subscriptions, o)
       /\ objs'[o].timeout # Null
       /\ {t \in timers' : t.self = o} =
            {[id |-> objs'[o].timeout, self |-> o, due |-> now + objs'[o].duration]}
       /\ ghost'[o].lastCb = "none"
       /\ emit'.self # o

C8_SubscribeAppendsArmed == [][C8_SubscribeStep]_vars

\* subscribe has just returned on a registry that already had an entry.
C8_Witness ==
  /\ AtTopLevel
  /\ Len(subscriptions) > 1
  /\ LET o == Len(objs)
     IN /\ subscriptions[Len(subscriptions)] = o
        /\ ArmedFor(o, now)
        /\ ghost[o].armedAt = now
        /\ ~ghost[o].touched
        /\ ghost[o].lastCb = "none"

(***************************************************************************)
(* C9.  In the container, once mounted, the default subscription is        *)
(* pending until something acts on it or it fires, and a gesture before    *)
(* its timeout has elapsed does not call the onActive prop.                *)
(* Stated as the claim; the code violates it: the constructor builds the   *)
(* default subscription without refreshTimeout, componentWillMount only    *)
(* creates the PanResponder, and startInactiveTimer is never called.       *)
(***************************************************************************)
C9_DefaultArmedOnMount ==
  (variant = "InteractionContainer" /\ phase = "mounted") =>
    LET o == inactivitySubscription
    IN /\ (AtTopLevel /\ ~ghost[o].touched /\ ghost[o].lastCb = "none")
            => isPending(World, o)
       /\ now < objs[o].duration => ~Called(o, "onActive")

(***************************************************************************)
(* C10.  A subscription whose unsubscribe handle has been invoked before   *)
(* any callback of it was called has no timer scheduled, and no later step *)
(* calls a callback of it.                                                 *)
(***************************************************************************)
RemovedEarly(o) == ghost[o].removed /\ ghost[o].lastCb = "none"

C10_RemovedEarlyState ==
  \A o \in 1..Len(objs) : RemovedEarly(o) => TimersOf(o) = {} /\ ~Live(o)

C10_RemovedEarlyStep ==
  \A o \in 1..Len(objs) :
    RemovedEarly(o) => ghost'[o].lastCb = "none" /\ emit'.self # o

C10_UnsubscribedEarlyNeverCalled ==
  [](C10_RemovedEarlyState) /\ [][C10_RemovedEarlyStep]_vars

\* An early-removed subscription has outlived its duration and a gesture
\* event has since been dispatched.
C10_Witness ==
  /\ DispatchDone
  /\ hist.startLive # <<>>
  /\ now = MaxTime
  /\ \E o \in 1..Len(objs) :
       /\ RemovedEarly(o)
       /\ objs[o].onActive
       /\ objs[o].onInactive

(***************************************************************************)
(* C11.  Invoking an unsubscribe handle that has already been invoked      *)
(* changes nothing: the live set and the timer state of every              *)
(* subscription, the removed one included, stay as they were.              *)
(* Stated as the claim, at every point where a handle can be invoked from  *)
(* outside a callback.  The code violates it in interactionProvider.js:    *)
(* remove() calls subscription.clearTimeout() before it looks at the       *)
(* index, so a second invocation cancels the timer that the forEach body   *)
(* armed for a subscription removed from its own onActive (see C1).        *)
(***************************************************************************)
C11_SecondRemoveIsNoOp ==
  (AtTopLevel /\ phase # "constructed") =>
    \A o \in Handles(World) :
      ghost[o].removed =>
        LET w == remove(World, o)
        IN /\ w.subscriptions = subscriptions
           /\ w.timers = timers
           /\ \A p \in 1..Len(objs) : w.objs[p].timeout = objs[p].timeout

(***************************************************************************)
(* C12.  The live set never contains a subscription whose unsubscribe      *)
(* handle has been invoked and never contains a subscription twice; a step *)
(* changes it only by appending one new subscription or by removing the    *)
(* one subscription whose handle the step invoked.                         *)
(***************************************************************************)
Without(seq, o) ==
  LET keep(x) == x # o
  IN SelectSeq(seq, keep)

C12_LiveState ==
  \A o \in 1..Len(objs) :
    /\ ghost[o].removed => ~Live(o)
    /\ Count(subscriptions, o) <= 1

C12_LiveStep ==
  subscriptions' # subscriptions =>
    \/ /\ Len(objs') = Len(objs) + 1
       /\ subscriptions' = Append(subscriptions, Len(objs'))
    \/ \E o \in 1..Len(objs) :
         /\ Live(o)
         /\ ~ghost[o].removed
         /\ ghost'[o].removed
         /\ subscriptions' = Without(subscriptions, o)

C12_LiveSetIntegrity == [](C12_LiveState) /\ [][C12_LiveStep]_vars

\* During a gesture dispatch a callback has invoked the handle of one
\* subscription while another stays live.
C12_Witness ==
  /\ dispatch.pc = "forEach"
  /\ hist.mutated
  /\ Len(hist.startLive) = MaxSubs
  /\ \E o \in 1..Len(objs) : ghost[o].removed /\ o \in Handles(World)
  /\ \E p \in 1..Len(objs) : Live(p) /\ p \in Handles(World)

(***************************************************************************)
(* C13.  Teardown (componentWillUnmount, stopInactiveTimer) disarms the    *)
(* timer of every live subscription and removes none of them; once the     *)
(* component is unmounted, where no gesture event or refresh can arm a     *)
(* timer again, no onInactive is called for any subscription that was not  *)
(* subscribed after the teardown.                                          *)
(* Stated as the claim.  The code violates the last part: the forEach of   *)
(* stopInactiveTimer only reaches the live subscriptions, so the timer     *)
(* armed for a subscription that was removed from its own onActive (see    *)
(* C1) survives the teardown and fires afterwards.                         *)
(***************************************************************************)
C13_TeardownStep ==
  (ComponentWillUnmount \/ StopInactiveTimer) =>
    /\ subscriptions' = subscriptions
    /\ \A o \in 1..Len(objs) :
         Live(o) => /\ objs'[o].timeout = Null
                    /\ \A t \in timers' : t.self # o

\* Teardown touches every live subscription and every removed one was touched
\* by its handle, so after it an untouched subscription is one that a later
\* subscribe created.
C13_SilentAfterTeardown ==
  phase = "unmounted" =>
    (emit.fn = "onInactive" => ~ghost[emit.self].touched)

C13_TeardownDisarmsAll ==
  [](C13_SilentAfterTeardown) /\ [][C13_TeardownStep]_vars

(***************************************************************************)
(* C14.  refreshInactiveTimer (and startInactiveTimer, which calls it)     *)
(* leaves every live subscription with exactly one timer, due that         *)
(* subscription's own duration after the call, calls no onActive and no    *)
(* onInactive, and leaves the live set and every subscription outside it   *)
(* as they were.                                                           *)
(***************************************************************************)
C14_RefreshStep ==
  (RefreshInactiveTimer \/ StartInactiveTimer) =>
    /\ subscriptions' = subscriptions
    /\ emit' = NoEmit
    /\ \A o \in 1..Len(objs) :
         /\ ghost'[o].lastCb = ghost[o].lastCb
         /\ Live(o) =>
              /\ objs'[o].timeout # Null
              /\ {t \in timers' : t.self = o} =
                   {[id |-> objs'[o].timeout, self |-> o,
                     due |-> now + objs[o].duration]}
         /\ ~Live(o) =>
              /\ objs'[o] = objs[o]
              /\ {t \in timers' : t.self = o} = TimersOf(o)

C14_RefreshAllRearms == [][C14_RefreshStep]_vars

\* Two live subscriptions of different durations are pending with timers
\* armed now, one of them with onInactive as its last callback: only a
\* refresh arms an inactive subscription without calling its onActive.
C14_Witness ==
  /\ AtTopLevel
  /\ now > 0
  /\ \E o, p \in 1..Len(objs) :
       /\ Live(o) /\ Live(p)
       /\ objs[o].duration # objs[p].duration
       /\ objs[o].onActive
       /\ ghost[o].lastCb = "onInactive"
       /\ ArmedFor(o, now) /\ ghost[o].armedAt = now
       /\ ArmedFor(p, now) /\ ghost[p].armedAt = now

(***************************************************************************)
(* C15.  One gesture dispatch visits subscriptions in registration order   *)
(* (identities are given out in the order of construction), and with no    *)
(* callback interfering the visited ones are the first entries of the      *)
(* live set as it was.  Each visit decides on onActive from the state      *)
(* before it, calls nobody else's callback, and re-arms last: whatever     *)
(* onActive did, the visit ends with the subscription holding one timer    *)
(* armed now; the entries after it are not examined by the visit.          *)
(***************************************************************************)
C15_OrderState ==
  dispatch.pc = "forEach" =>
    /\ \A i, j \in 1..Len(hist.visited) :
         i < j => hist.visited[i] < hist.visited[j]
    /\ ~hist.mutated =>
         hist.visited = SubSeq(hist.startLive, 1, Len(hist.visited))

C15_VisitStep ==
  (\E cb \in Callbacks : GestureVisit(cb)) =>
    LET o == subscriptions[dispatch.k]
    IN /\ emit'.self \in {Null, o}
       /\ emit'.self = o <=> CallsOnActive(World, o)
       /\ objs'[o].timeout # Null
       /\ {t \in timers' : t.self = o} =
            {[id |-> objs'[o].timeout, self |-> o, due |-> now + objs[o].duration]}
       /\ \A p \in 1..Len(objs) :
            p # o => ghost'[p].lastCb = ghost[p].lastCb
       /\ ~hist'.mutated =>
            \A p \in 1..Len(objs) : p # o =>
              /\ objs'[p] = objs[p]
              /\ {t \in timers' : t.self = p} = TimersOf(p)

C15_RegistrationOrder == [](C15_OrderState) /\ [][C15_VisitStep]_vars

\* A dispatch has visited every subscription of a full live set, each with
\* its onActive called, and no callback changed the registry.
C15_Witness ==
  /\ DispatchDone
  /\ ~hist.mutated
  /\ Len(hist.startLive) = MaxSubs
  /\ hist.visited = hist.startLive
  /\ hist.activated = hist.startLive
  /\ \A i \in 1..Len(hist.visited) : ArmedFor(hist.visited[i], now)

(***************************************************************************)
(* C16.  onPanResponderCapture returns false, and nothing else, every time *)
(* it returns, whatever the registry holds.  With an empty live set the    *)
(* handler goes from its entry straight to the return: it calls no         *)
(* callback and neither arms nor cancels a timer.                          *)
(***************************************************************************)
C16_ReturnState == emit.returned \subseteq {FALSE}

C16_ReturnStep ==
  GestureReturn =>
    /\ emit'.returned = {FALSE}
    /\ emit'.fn = "none"
    /\ timers' = timers
    /\ objs' = objs

C16_EmptyStep ==
  /\ (GestureBegin /\ subscriptions = <<>>) =>
       /\ emit' = NoEmit
       /\ timers' = timers
       /\ objs' = objs
       /\ dispatch'.k > dispatch'.len
  /\ (dispatch.pc = "forEach" /\ dispatch.len = 0) =>
       /\ dispatch'.pc = "idle"
       /\ emit' = [NoEmit EXCEPT !.returned = {FALSE}]
       /\ timers' = timers
       /\ objs' = objs

C16_CaptureReturnsFalse ==
  [](C16_ReturnState) /\ [][C16_ReturnStep /\ C16_EmptyStep]_vars

\* The handler has just returned and no timer is scheduled: a visit leaves
\* its subscription armed, so the event was dispatched on an empty live
\* set, here after every subscription ever made has been unsubscribed.
C16_Witness ==
  /\ AtTopLevel
  /\ phase = "mounted"
  /\ now > 0
  /\ emit.returned = {FALSE}
  /\ subscriptions = <<>>
  /\ Len(objs) = MaxSubs
  /\ timers = {}

(***************************************************************************)
(* C17.  A subscription whose duration is zero or negative has its         *)
(* onInactive called asynchronously and without delay: subscribe itself    *)
(* calls no callback of it and leaves its timer due at once; while that    *)
(* timer is scheduled the clock does not advance; its onInactive runs at   *)
(* the time the timer was armed; and when the timer of a subscription      *)
(* with a positive duration fires, no subscription of non-positive         *)
(* duration armed at or before the same moment is still waiting.           *)
(* Checked under SpecNonPositive.                                          *)
(***************************************************************************)
C17_DueAtOnce ==
  \A o \in 1..Len(objs) :
    objs[o].duration <= 0 =>
      \A t \in TimersOf(o) : t.due = ghost[o].armedAt /\ t.due = now

C17_Step ==
  /\ Len(objs') = Len(objs) + 1 =>
       LET o == Len(objs')
       IN /\ emit'.self # o
          /\ ghost'[o].lastCb = "none"
          /\ \E t \in timers' : t.self = o /\ t.id = objs'[o].timeout
  /\ \A o \in 1..Len(objs) :
       (objs[o].duration <= 0 /\ TimersOf(o) # {}) => now' = now
  /\ \A o \in 1..Len(objs) :
       (objs[o].duration <= 0 /\ emit'.self = o /\ emit'.fn = "onInactive") =>
         now = ghost[o].armedAt
  /\ \A p, o \in 1..Len(objs) :
       ( /\ objs[p].duration > 0
         /\ emit'.self = p /\ emit'.fn = "onInactive"
         /\ objs[o].duration <= 0
         /\ TimersOf(o) # {} ) =>
         ghost[o].armedAt > ghost[p].armedAt

C17_NonPositiveFiresNextTick == [](C17_DueAtOnce) /\ [][C17_Step]_vars

\* onInactive of a subscription with a negative duration has just been
\* called, at the time it was subscribed, while a subscription with a
\* positive duration armed at the same moment is still waiting.
C17_Witness ==
  /\ now > 0
  /\ \E o, p \in 1..Len(objs) :
       /\ objs[o].duration < 0
       /\ Called(o, "onInactive")
       /\ ~ghost[o].touched
       /\ objs[p].duration > 0
       /\ ghost[p].armedAt = now
       /\ ArmedFor(p, now)

(***************************************************************************)
(* C18.  subscribeForActivity(d, f) and subscribeForInactivity(d, g) make  *)
(* the subscription subscribe(d, f, null) and subscribe(d, null, g) make,  *)
(* and a subscription behaves the same with a callback absent as with      *)
(* both present: from every reachable state, the gesture handler's visit   *)
(* and the deferred callback leave the live set, the host timers and every *)
(* timeout field exactly as they would for a subscription with both        *)
(* callbacks whose callbacks do nothing; the only difference is that the   *)
(* absent callback is not called.                                          *)
(***************************************************************************)
WithCallbacks(w, o, onActive, onInactive) ==
  [w EXCEPT !.objs[o].onActive = onActive, !.objs[o].onInactive = onInactive]

Registry(w) ==
  [subscriptions |-> w.subscriptions,
   timers |-> w.timers,
   timeouts |-> [p \in 1..Len(w.objs) |-> w.objs[p].timeout]]

C18_SameSteps ==
  \A o \in 1..Len(objs) : \A a, i \in BOOLEAN :
    LET one == WithCallbacks(Quiet(World), o, a, i)
        both == WithCallbacks(Quiet(World), o, TRUE, TRUE)
        visitOne == captureBody(one, o, NoCallback)
        visitBoth == captureBody(both, o, NoCallback)
        fireOne == inactive(one, o, NoCallback)
        fireBoth == inactive(both, o, NoCallback)
    IN /\ Registry(visitOne) = Registry(visitBoth)
       /\ Registry(clearTimeout(fireOne, o)) = Registry(clearTimeout(fireBoth, o))
       /\ visitOne.emit.fn = "onActive" <=> (a /\ ~isPending(World, o))
       /\ visitBoth.emit.fn = "onActive" <=> ~isPending(World, o)
       /\ fireOne.emit.fn = "onInactive" <=> i
       /\ fireBoth.emit.fn = "onInactive"

C18_SugarStep ==
  \A d \in Durations :
    LET plain == subscribe(Quiet(World), d, "subscribe")
        o == Len(objs')
    IN /\ SubscribeForActivity(d) =>
            /\ objs'[o].onActive /\ ~objs'[o].onInactive
            /\ objs'[o].duration = d
            /\ Registry([objs |-> objs', subscriptions |-> subscriptions',
                         timers |-> timers']) = Registry(plain)
       /\ SubscribeForInactivity(d) =>
            /\ ~objs'[o].onActive /\ objs'[o].onInactive
            /\ objs'[o].duration = d
            /\ Registry([objs |-> objs', subscriptions |-> subscriptions',
                         timers |-> timers']) = Registry(plain)

\* Expiry is never held back by an absent onInactive: the deferred callback
\* of a due timer runs whoever listens.
C18_NeverBlocked ==
  \A t \in timers :
    (AtTopLevel /\ Due(t) /\ ~objs[t.self].onInactive) =>
      ENABLED TimerExpire(t, NoCallback)

C18_AbsentCallbackEquivalent ==
  [](C18_SameSteps /\ C18_NeverBlocked) /\ [][C18_SugarStep]_vars

\* The timer of a subscription made by subscribeForActivity has expired
\* with nothing called, after its onActive had been called by an earlier
\* gesture event, while a subscription with both callbacks is live.
C18_Witness ==
  /\ dispatch.pc = "timer"
  /\ emit = NoEmit
  /\ LET o == dispatch.self
     IN /\ objs[o].onActive /\ ~objs[o].onInactive
        /\ ghost[o].lastCb = "onActive"
        /\ Live(o)
  /\ \E p \in 1..Len(objs) : Live(p) /\ objs[p].onActive /\ objs[p].onInactive

(***************************************************************************)
(* C19.  A subscription whose unsubscribe handle has been invoked holds no *)
(* armed timer: its timeout field is empty and the host has no deferred    *)
(* callback of it.                                                         *)
(* Stated as the claim.  The code violates it in the case the claim names: *)
(* when onActive invokes the handle of its own subscription during a       *)
(* gesture dispatch, the forEach body goes on to refreshTimeout the        *)
(* subscription it has just removed.                                       *)
(***************************************************************************)
C19_RemovedHoldsNoTimer ==
  \A o \in 1..Len(objs) :
    (ghost[o].removed /\ ~Live(o)) => (~isPending(World, o) /\ TimersOf(o) = {})

(***************************************************************************)
(* C20.  The deferred callback of a timer first calls inactive() and only  *)
(* then clears the handle: after inactive() with a callback that does      *)
(* nothing the subscription still holds the handle of the timer that       *)
(* fired, and onInactive has been called exactly if it is present.  When   *)
(* the deferred callback has finished, the subscription is not pending and *)
(* the host has no timer of it, whatever onInactive did: subscribed,       *)
(* invoked an unsubscribe handle, or refreshed every timer, its own        *)
(* included.                                                               *)
(***************************************************************************)
C20_InactiveFirst ==
  \A t \in timers :
    TimerExpire(t, NoCallback) =>
      /\ objs'[t.self].timeout = t.id
      /\ dispatch' = [Idle EXCEPT !.pc = "timer", !.self = t.self]
      /\ IF objs[t.self].onInactive
           THEN emit'.self = t.self /\ emit'.fn = "onInactive"
           ELSE emit' = NoEmit

C20_ClearLast ==
  TimerClear =>
    /\ objs'[dispatch.self].timeout = Null
    /\ \A t \in timers' : t.self # dispatch.self
    /\ emit' = NoEmit
    /\ dispatch' = Idle

C20_DeferredCallbackOrder == [][C20_InactiveFirst /\ C20_ClearLast]_vars

\* inactive() has returned and clearTimeout() is about to run, after an
\* onInactive that refreshed every timer: the subscription whose timer
\* fired holds a new timer, armed during its own onInactive.
C20_Witness ==
  /\ dispatch.pc = "timer"
  /\ LET o == dispatch.self
     IN /\ Called(o, "onInactive")
        /\ Live(o)
        /\ ArmedFor(o, now)
        /\ \E p \in 1..Len(objs) : p # o /\ Live(p) /\ ArmedFor(p, now)

(***************************************************************************)
(* C21.  Outside the deferred callback of subscription S (between its      *)
(* inactive() and its clearTimeout() the timer has fired and the handle is *)
(* still stored), S.isPending() is true exactly when the host holds one    *)
(* deferred callback of S: a stored handle is the handle of that scheduled *)
(* timer, an empty handle means no timer of S is scheduled, and            *)
(* clearTimeout() on a subscription that is not pending changes nothing.   *)
(***************************************************************************)
InDeferredCallback(o) == dispatch.pc = "timer" /\ dispatch.self = o

C21_HandleMatchesTimer ==
  \A o \in 1..Len(objs) :
    ~InDeferredCallback(o) =>
      /\ isPending(World, o) <=> Cardinality(TimersOf(o)) = 1
      /\ isPending(World, o) => \A t \in TimersOf(o) : t.id = objs[o].timeout
      /\ ~isPending(World, o) =>
           /\ TimersOf(o) = {}
           /\ clearTimeout(World, o) = World

\* At top level one subscription is inactive after its timer fired and was
\* cleared, and another, re-armed since it was subscribed, is pending on
\* one timer.
C21_Witness ==
  /\ AtTopLevel
  /\ now > 0
  /\ \E o, p \in 1..Len(objs) :
       /\ ghost[o].lastCb = "onInactive"
       /\ ~isPending(World, o)
       /\ TimersOf(o) = {}
       /\ ghost[p].touched
       /\ isPending(World, p)
       /\ ghost[p].armedAt = now
       /\ Cardinality(TimersOf(p)) = 1

(***************************************************************************)
(* C22.  The claim: for every subscription the onActive and onInactive     *)
(* calls strictly alternate, beginning with onInactive, over sequences     *)
(* that include stopAll and refreshAll.  Stated here for the subscriptions *)
(* subscribe made with both callbacks.  It does not hold:                  *)
(* stopInactiveTimer disarms a pending subscription without calling        *)
(* onInactive, so the next gesture event calls onActive again, and         *)
(* refreshInactiveTimer re-arms an elapsed subscription without calling    *)
(* onActive, so its timer calls onInactive again.                          *)
(***************************************************************************)
BothCallbacks(o) == o \in Handles(World) /\ objs[o].onActive /\ objs[o].onInactive

AlternatesAt(o) ==
  emit'.self = o =>
    /\ emit'.fn = "onActive" => ghost[o].lastCb = "onInactive"
    /\ emit'.fn = "onInactive" => ghost[o].lastCb # "onInactive"

C22_StrictAlternation ==
  [][\A o \in 1..Len(objs) : BothCallbacks(o) => AlternatesAt(o)]_vars

(***************************************************************************)
(* C22 as amended.  A subscription is in step when it is waiting on its    *)
(* timer exactly if its last callback was not onInactive.  subscribe makes *)
(* a subscription in step; every step other than stopAll, refreshAll and   *)
(* the invocation of its own unsubscribe handle keeps it in step; and      *)
(* while it is in step, and after its handle has been invoked, its         *)
(* callbacks alternate, beginning with onInactive.                         *)
(***************************************************************************)
Waiting(o) == isPending(World, o) /\ ~InDeferredCallback(o)

InStep(o) == Waiting(o) <=> ghost[o].lastCb # "onInactive"

ForcedStep ==
  \/ StopInactiveTimer
  \/ RefreshInactiveTimer
  \/ StartInactiveTimer
  \/ ComponentWillUnmount
  \/ \E cb \in Callbacks :
       /\ cb.op = "refresh"
       /\ GestureVisit(cb) \/ \E t \in timers : TimerExpire(t, cb)

C22_AmendedStep ==
  /\ Len(objs') = Len(objs) + 1 =>
       LET o == Len(objs')
       IN (isPending([objs |-> objs'], o) <=> ghost'[o].lastCb # "onInactive")
  /\ \A o \in 1..Len(objs) :
       (BothCallbacks(o) /\ ghost[o].removed) => AlternatesAt(o)
  /\ \A o \in 1..Len(objs) :
       (BothCallbacks(o) /\ InStep(o)) =>
         /\ AlternatesAt(o)
         /\ (~ForcedStep /\ ~ghost'[o].removed) =>
              ( (objs'[o].timeout # Null /\ ~(dispatch'.pc = "timer" /\ dispatch'.self = o))
                  <=> ghost'[o].lastCb # "onInactive" )

C22_AlternationWhileInStep == [][C22_AmendedStep]_vars

\* A gesture event has called onActive of a subscription subscribe made
\* with both callbacks, after its onInactive, and has re-armed it.
C22_Witness ==
  /\ dispatch.pc = "forEach"
  /\ now > 0
  /\ \E o \in 1..Len(objs) :
       /\ BothCallbacks(o)
       /\ Called(o, "onActive")
       /\ InStep(o)
       /\ ~ghost[o].removed
       /\ ArmedFor(o, now)

(***************************************************************************)
(* C23.  Invoking the unsubscribe handle of a subscription takes that one  *)
(* subscription out of the live set and leaves every other subscription    *)
(* as it was: the others keep their places relative to each other, their   *)
(* timeout handles and scheduled timers, and no callback of theirs is      *)
(* called.  This holds for an invocation from top level and for one made   *)
(* by a callback, where the only other subscription affected by the step   *)
(* is the one whose callback is running.                                   *)
(***************************************************************************)
OthersKept(gone, running) ==
  /\ subscriptions' = Without(subscriptions, gone)
  /\ emit'.self \in {Null, running}
  /\ \A p \in 1..Len(objs) :
       p \notin {gone, running} =>
         /\ objs'[p] = objs[p]
         /\ {t \in timers' : t.self = p} = TimersOf(p)
         /\ ghost'[p].lastCb = ghost[p].lastCb

C23_RemoveStep ==
  /\ \A o \in 1..MaxSubs : Remove(o) => OthersKept(o, Null)
  /\ \A cb \in Callbacks :
       cb.op = "remove" =>
         /\ GestureVisit(cb) => OthersKept(cb.target, subscriptions[dispatch.k])
         /\ \A t \in timers : TimerExpire(t, cb) => OthersKept(cb.target, t.self)

C23_UnsubscribeFrame == [][C23_RemoveStep]_vars

\* The first of two subscriptions has been unsubscribed; the second, on
\* which nothing else has acted, has moved to the front of the live set and
\* still waits on the timer armed when it was subscribed.
C23_Witness ==
  /\ AtTopLevel
  /\ now > 0
  /\ emit = NoEmit
  /\ \E o, p \in 1..Len(objs) :
       /\ o < p
       /\ o \in Handles(World)
       /\ ghost[o].removed
       /\ subscriptions = <<p>>
       /\ ~ghost[p].touched
       /\ ghost[p].armedAt < now
       /\ ArmedFor(p, ghost[p].armedAt)

(***************************************************************************)
(* C24.  Under fair scheduling (SpecLive) every behaviour reaches a point  *)
(* from which every live subscription is inactive for good: not pending,   *)
(* with no timer of it scheduled.  So no live subscription waits on a      *)
(* timer forever: its timer fires and the deferred callback clears it, or  *)
(* a refresh replaces it by a later one that fires in turn, or stopAll or  *)
(* the unsubscribe handle cancels it; and once gesture events, refreshes   *)
(* and subscribes have ceased, whatever was pending becomes inactive and   *)
(* stays inactive.                                                         *)
(***************************************************************************)
AllInactive ==
  \A o \in 1..Len(objs) : Live(o) => (~isPending(World, o) /\ TimersOf(o) = {})

C24_PendingEventuallyInactive == <>[]AllInactive

\* At the end of the clock a live subscription that a gesture event had
\* kept active is inactive: its onInactive has been called and no timer of
\* it is left.
C24_Witness ==
  /\ AtTopLevel
  /\ now = MaxTime
  /\ AllInactive
  /\ \E o \in 1..Len(objs) :
       /\ Live(o)
       /\ objs[o].duration = MaxDur
       /\ ghost[o].touched
       /\ ghost[o].lastCb = "onInactive"

=============================================================================
